---- MODULE Spec2Model ----
(***************************************************************************)
(* FixedSkipList: a fixed-capacity skip list over caller-owned indices.    *)
(* The link fields live in flat integer lanes (one forward lane per level, *)
(* one backward lane at level 0); node identity is the caller's index and  *)
(* the order is given by a comparator over indices.                        *)
(*                                                                         *)
(* The model follows the class with the backward lane (forwards/backwards) *)
(* and keeps the older default iterator beside it.                         *)
(*                                                                         *)
(* Spec:       valid use, insert and remove of the caller's slots.         *)
(* SpecWindow: a sliding window over a CircularBuffer (append, evict,      *)
(*             insert).                                                    *)
(* SpecMisuse: insert and remove with any index in range.                  *)
(* SpecNew:    the constructor over a range of capacities and ratios.      *)
(* SpecQuery:  valid use with bisect, search and the iterations as calls.  *)
(* SpecLevel:  randomLevel over a range of tables, ratios and draws.       *)
(* SpecIter:   a generator stepped between insert and remove calls;        *)
(*             SpecIterFair adds the consumer that keeps calling next().   *)
(* SpecTwin:   two lists given the same calls with draws of their own.     *)
(***************************************************************************)
EXTENDS Integers, Sequences, FiniteSets, TLC

\* ------------------------------------------------------------------ bounds

\* capacity handed to the constructor
Capacity == 3

\* the caller's values are 0..MaxVal (the comparator orders indices by value)
MaxVal == 1

\* the number of insert and remove calls of a run
MaxOps == 6

\* the number of values a sliding-window run appends
MaxAppends == 6

\* the number of calls of a run that misuses the list
MaxMisuse == 4

\* the constructor is tried with capacity 0..MaxCapacityArg and ratio num / den,
\* num in -1..MaxRatioNum, den in 1..MaxRatioDen
MaxCapacityArg == 10

MaxRatioNum == 3

MaxRatioDen == 3

\* 1 / ratio handed to the constructor (ratio = 1/3)
RatioInv == 3

\* randomLevel is tried with tables of 0..MaxLevelCount entries and ratios num / den
\* with den in 2..MaxLevelDen
MaxLevelCount == 3
MaxLevelDen == 4

\* the number of insert and remove calls made around one lazy iteration
MaxIterOps == 4

\* JavaScript null / undefined of the cross-level hints
Null == -1

Indices == 0 .. (Capacity - 1)

Values == 0 .. MaxVal

\* ------------------------------------------------------------ construction

RECURSIVE Pow(_, _)
Pow(b, e) == IF e = 0 THEN 1 ELSE b * Pow(b, e - 1)

\* floor(log(n) / log(b)) for integers n >= 1, b >= 2
RECURSIVE FloorLog(_, _)
FloorLog(n, b) == IF n < b THEN 0 ELSE 1 + FloorLog(n \div b, b)

\* maxLevel = Math.floor(Math.log(capacity) / Math.log(1 / ratio)) + 1
maxLevel == FloorLog(Capacity, RatioInv) + 1

Levels == 0 .. (maxLevel - 1)

\* a zero-filled Uint32Array(capacity)
ZeroLane == [i \in Indices |-> 0]

\* a JavaScript number as the constructor meets it: an integer, NaN or an infinity
Num(n) == [kind |-> "num", n |-> n]

NaN == [kind |-> "nan", n |-> 0]

PosInf == [kind |-> "posinf", n |-> 0]

NegInf == [kind |-> "neginf", n |-> 0]

\* floor(log(capacity) / log(den / num)) for 0 < num < den and capacity >= 1
RECURSIVE FloorLogQ(_, _, _, _)
FloorLogQ(capacity, num, den, k) ==
  IF Pow(den, k + 1) <= capacity * Pow(num, k + 1)
    THEN FloorLogQ(capacity, num, den, k + 1)
    ELSE k

\* ceil(log(capacity) / log(num / den)) for num > den and capacity >= 1
RECURSIVE CeilLogQ(_, _, _, _)
CeilLogQ(capacity, num, den, k) ==
  IF Pow(num, k) >= capacity * Pow(den, k) THEN k
  ELSE CeilLogQ(capacity, num, den, k + 1)

\* Math.floor(Math.log(capacity) / Math.log(1 / ratio)) + 1 with ratio = num / den:
\* Math.log(0) is -Infinity, Math.log of a negative number is NaN, 1 / 0 is
\* Infinity, x / 0 is an infinity for x # 0, and 0 / 0 and Infinity / Infinity
\* are NaN
maxLevelOf(capacity, num, den) ==
  IF num < 0 THEN NaN
  ELSE IF capacity = 0
    THEN (IF num = 0 THEN NaN ELSE IF num <= den THEN NegInf ELSE PosInf)
  ELSE IF capacity = 1
    THEN (IF num = den THEN NaN ELSE Num(1))
  ELSE IF num = 0 THEN Num(1)
  ELSE IF num < den THEN Num(FloorLogQ(capacity, num, den, 0) + 1)
  ELSE IF num = den THEN PosInf
  ELSE Num(1 - CeilLogQ(capacity, num, den, 0))

\* x * k for an integer k >= 0
times(x, k) ==
  IF x.kind = "num" THEN Num(x.n * k)
  ELSE IF k = 0 THEN NaN
  ELSE x

\* x - 1
minusOne(x) == IF x.kind = "num" THEN Num(x.n - 1) ELSE x

\* a length handed to new ArrayBuffer / new Float64Array / new Uint32Array: NaN
\* counts as 0, a negative or infinite length raises a RangeError
rangeError(x) == x.kind \in {"posinf", "neginf"} \/ (x.kind = "num" /\ x.n < 0)

\* new FixedSkipList(capacity, num / den, compare): the constructor has no check
\* of its own; it fails only where an allocation raises
constructor(capacity, num, den) ==
  LET ml == maxLevelOf(capacity, num, den)
      metalength == times(ml, 4)
      lanelength == capacity * 4
      thrown == \/ rangeError(times(metalength, 3))
                \/ rangeError(ml)
                \/ rangeError(minusOne(ml))
                \/ rangeError(times(ml, lanelength))
  IN [capacity |-> capacity, num |-> num, den |-> den,
      state |-> IF thrown THEN "thrown" ELSE "made",
      maxLevel |-> IF ~thrown /\ ml.kind = "num" THEN ml.n ELSE 0]

\* ---------------------------------------------------------------- randomLevel

\* randomLevelGenerator(count, ratio) with ratio = num / den: the uniform draw x in
\* [0, 1) is xs / drawScale, and table[i] = ratio ** (i + 1) is tableEntry / drawScale
drawScale(count, den) == 2 * Pow(den, count)

tableEntry(count, num, den, i) == 2 * Pow(num, i + 1) * Pow(den, count - (i + 1))

\* mutant: a draw equal to a table entry counts as above it
drawWithinStrict(x, entry) == x < entry

\* if (x <= table[mid])
drawWithin(x, entry) == x <= entry

\* while (lo < hi) { mid = (lo + hi) >>> 1; ... } return lo
RECURSIVE levelSearch(_, _, _, _, _, _)
levelSearch(count, num, den, xs, lo, hi) ==
  IF lo < hi
    THEN LET mid == (lo + hi) \div 2
         IN IF drawWithin(xs, tableEntry(count, num, den, mid))
              THEN levelSearch(count, num, den, xs, mid + 1, hi)
              ELSE levelSearch(count, num, den, xs, lo, mid)
    ELSE lo

\* the level that the function made by randomLevelGenerator(count, num / den)
\* returns when Math.random() gives xs / drawScale
randomLevelGenerator(count, num, den, xs) == levelSearch(count, num, den, xs, 0, count)

\* this.randomLevel = randomLevelGenerator(maxLevel - 1, ratio) of the list under
\* study: the uniform draw x in [0, 1) is xs / XScale
XScale == drawScale(maxLevel - 1, RatioInv)

Draws == 0 .. (XScale - 1)

\* table[i] = ratio ** (i + 1), scaled by XScale
table(i) == tableEntry(maxLevel - 1, 1, RatioInv, i)

\* the binary search of randomLevel
randomLevelSearch(xs, lo, hi) == levelSearch(maxLevel - 1, 1, RatioInv, xs, lo, hi)

randomLevel(xs) == randomLevelSearch(xs, 0, maxLevel - 1)

\* what a query has used before its first scan
NothingUsed ==
  [result |-> Null, levels |-> {}, keys |-> {}, bounded |-> TRUE, compares |-> 0]

\* ---------------------------------------------------------------------- state

VARIABLES
  currentLevel,  \* this.currentLevel
  heads,         \* this.heads : level -> index
  tails,         \* this.tails : level -> index
  sizes,         \* this.sizes : level -> count
  nexts,         \* this.nexts : level -> lane
  prevs,         \* this.prevs[0] : the backward lane of level 0
  data,          \* the caller's container: index -> value (read by compare only)
  live,          \* history: the indices inserted and not yet removed
  ref,           \* history: the reference sorted list of the live indices
  drawn,         \* history: index -> the level drawn at its insert
  op,            \* history: the last call and its arguments; order and size: the
                 \* full iteration and the size before an insert (kept by the
                 \* remove that undoes it: undo); old: what an appended value
                 \* has overwritten
  nops,          \* history: the number of insert and remove calls so far
  inside,        \* history: the last call used only levels and cells that exist
  buffer,        \* the CircularBuffer: its values, limit and cursor
  pending,       \* sliding window: the index append returned, not yet inserted
  appends,       \* history: the number of append calls so far
  ctor,          \* the constructor call: its arguments and its outcome
  bounded,       \* history: no scan of the last call took more rounds than the size
                 \* of its level
  recent,        \* history: the values the buffer should hold, oldest first
  iter,          \* a lazy iteration in progress: the generator's locals
  draw,          \* a randomLevel call: the table size, the ratio, the draw, the level
  twin,          \* a second list that receives the same calls with draws of its own
  compares       \* history: the comparator calls that the last call made

vars == <<currentLevel, heads, tails, sizes, nexts, prevs, data, live, ref, drawn, op, nops,
          inside, buffer, pending, appends, ctor, bounded, recent, iter, draw, twin, compares>>

\* the fields of the instance as one record
Self == [currentLevel |-> currentLevel, heads |-> heads, tails |-> tails,
         sizes |-> sizes, nexts |-> nexts, prevs |-> prevs]

\* ascending(data[ia], data[ib])
ascending(a, b) == IF a = b THEN 0 ELSE IF a < b THEN -1 ELSE 1

compare(d, ia, ib) == ascending(d[ia], d[ib])

\* mutant: the backward lane is written at every level
linksBackAnyLevel(level) == TRUE

\* if (level === 0): the backward lane belongs to level 0
linksBack(level) == level = 0

\* mutant: the level drawn becomes the current level
MaxFirst(a, b) == a

\* Math.max(insertLevel, this.currentLevel)
Max(a, b) == IF a >= b THEN a ELSE b

\* typed-array store lane[key] = value: a null key is no element of the lane
\* (the store lands on an ordinary property and changes no cell), a null
\* value is stored as 0
Store(lane, key, value) ==
  IF key = Null THEN lane
  ELSE [lane EXCEPT ![key] = IF value = Null THEN 0 ELSE value]

\* mutant: the scans run one round past the size of the level
scanEndsLate(i, size) == i > size

\* the bound of every scan: for (let i = 0; i < size; i++) is left when i >= size
scanEnds(i, size) == i >= size

\* --------------------------------------------------------------------- insert

\* mutant: the comparison against the head with its sign flipped
insertsAtFrontFlipped(d, index, head) == compare(d, index, head) > 0

\* mutant: an index equal to the head goes in front of it
insertsAtFrontOnTie(d, index, head) == compare(d, index, head) <= 0

\* compare(index, head) < 0: index goes in front of the head
insertsAtFront(d, index, head) == compare(d, index, head) < 0

\* mutant: an index equal to the tail is sent into the interior scan
insertsAtBackStrict(d, index, tail) == compare(d, index, tail) > 0

\* compare(index, tail) >= 0: index goes behind the tail
insertsAtBack(d, index, tail) == compare(d, index, tail) >= 0

\* mutant: the scan stops at an index equal to the one inserted
scanStopsOnTie(d, index, curr) == compare(d, index, curr) <= 0

\* compare(index, curr) < 0: the scan has met the successor of index
scanStops(d, index, curr) == compare(d, index, curr) < 0

\* mutant: insert forgets to count the index
sizeAfterInsertKept(size) == size

\* if (insert) this.sizes[level]++
sizeAfterInsert(size) == size + 1

\* mutant: an index is spliced one level lower than the level drawn for it
insertsAtLevelBelow(level, insertLevel) == level < insertLevel

\* mutant: the index is linked at the level drawn only
insertsAtLevelOnly(level, insertLevel) == level = insertLevel

\* insert = level <= insertLevel
insertsAtLevel(level, insertLevel) == level <= insertLevel

\* the interior scan of insert: for (let i = 0; i < size; i++) ...
\* seen: the cells of next the scan has read; steps: the rounds of the loop body
RECURSIVE insertScan(_, _, _, _, _, _, _)
insertScan(d, next, index, curr, last, i, size) ==
  IF scanEnds(i, size)
    THEN [hit |-> FALSE, last |-> last, curr |-> curr, seen |-> {}, steps |-> i]
  ELSE IF scanStops(d, index, curr)
    THEN [hit |-> TRUE, last |-> last, curr |-> curr, seen |-> {}, steps |-> i + 1]
  ELSE LET r == insertScan(d, next, index, next[curr], curr, i + 1, size)
       IN [r EXCEPT !.seen = @ \cup {curr}]

\* one round of the level loop of insert; st carries the instance, point, and
\* the positions the call has used so far: levels (of heads, tails, sizes, nexts)
\* and keys (cells of a lane). prev = this.prevs[level] is undefined above level 0
\* and is used at level 0 only.
insertLevelStep(d, st, level, index, insertLevel) ==
  LET insert == insertsAtLevel(level, insertLevel)
      size == st.sizes[level]
      head == st.heads[level]
      tail == st.tails[level]
      next == st.nexts[level]
      s0 == [st EXCEPT !.levels = @ \cup {level}]
      sc == [s0 EXCEPT !.compares = @ + (IF size < 1 THEN 0
                                         ELSE IF insertsAtFront(d, index, head) THEN 1
                                         ELSE 2)]
      s1 == IF insert THEN [sc EXCEPT !.sizes[level] = sizeAfterInsert(size)] ELSE sc
  IN IF size >= 1
       THEN IF insertsAtFront(d, index, head)
              THEN IF insert
                     THEN [s1 EXCEPT !.point = Null,
                                     !.heads[level] = index,
                                     !.nexts[level] = Store(next, index, head),
                                     !.prevs = IF linksBack(level) THEN Store(@, head, index) ELSE @,
                                     !.keys = @ \cup {index} \cup (IF level = 0 THEN {head} ELSE {})]
                     ELSE [s1 EXCEPT !.point = Null]
            ELSE IF insertsAtBack(d, index, tail)
              THEN IF insert
                     THEN [s1 EXCEPT !.point = tail,
                                     !.tails[level] = index,
                                     !.nexts[level] = Store(next, tail, index),
                                     !.prevs = IF linksBack(level) THEN Store(@, index, tail) ELSE @,
                                     !.keys = @ \cup {tail} \cup (IF level = 0 THEN {index} ELSE {})]
                     ELSE [s1 EXCEPT !.point = tail]
            ELSE LET fromHead == st.point = Null
                     last0 == IF fromHead THEN head ELSE Null
                     curr0 == IF fromHead THEN next[head] ELSE st.point
                     r == insertScan(d, next, index, curr0, last0, 0, size)
                     s2 == [s1 EXCEPT !.keys = @ \cup r.seen \cup (IF fromHead THEN {head} ELSE {}),
                                      !.bounded = @ /\ r.steps <= size,
                                      !.compares = @ + r.steps]
                 IN IF ~r.hit THEN s2
                    ELSE IF insert
                      THEN [s2 EXCEPT !.point = r.last,
                                      !.nexts[level] = Store(Store(next, r.last, index), index, r.curr),
                                      !.prevs = IF linksBack(level)
                                                  THEN Store(Store(@, index, r.last), r.curr, index)
                                                  ELSE @,
                                      !.keys = @ \cup {r.last, index}
                                                 \cup (IF level = 0 THEN {r.curr} ELSE {})]
                      ELSE [s2 EXCEPT !.point = r.last]
       ELSE IF insert
              THEN [s1 EXCEPT !.point = Null, !.heads[level] = index, !.tails[level] = index]
              ELSE [s1 EXCEPT !.point = Null]

\* for (let level = this.currentLevel; level >= 0; level--)
RECURSIVE insertLoop(_, _, _, _, _)
insertLoop(d, st, level, index, insertLevel) ==
  IF level < 0 THEN st
  ELSE insertLoop(d, insertLevelStep(d, st, level, index, insertLevel), level - 1, index, insertLevel)

\* insert(index) with the level that randomLevel() returned
insert(d, self, index, insertLevel) ==
  LET top == Max(insertLevel, self.currentLevel)
      st0 == [currentLevel |-> top, heads |-> self.heads, tails |-> self.tails,
              sizes |-> self.sizes, nexts |-> self.nexts, prevs |-> self.prevs,
              point |-> Null, levels |-> {}, keys |-> {}, bounded |-> TRUE,
              compares |-> 0]
  IN insertLoop(d, st0, top, index, insertLevel)

\* --------------------------------------------------------------------- remove

\* the scan of remove: for (let i = 0, curr = point ?? head, last = null; i < size; i++)
\* mutant: the scan takes any index at or above the one asked for
removeFindsAtOrAbove(curr, index) == curr >= index

\* if (curr === index)
removeFinds(curr, index) == curr = index

\* seen: the cells of next the scan has read
RECURSIVE removeScan(_, _, _, _, _, _, _)
removeScan(next, index, tail, curr, last, i, size) ==
  IF scanEnds(i, size) THEN [hit |-> FALSE, last |-> last, seen |-> {}, steps |-> i]
  ELSE IF removeFinds(curr, index)
    THEN [hit |-> TRUE, last |-> last, seen |-> {}, steps |-> i + 1]
  ELSE IF curr = tail THEN [hit |-> FALSE, last |-> curr, seen |-> {}, steps |-> i + 1]
  ELSE LET r == removeScan(next, index, tail, next[curr], curr, i + 1, size)
       IN [r EXCEPT !.seen = @ \cup {curr}]

\* mutant: remove forgets to decrement the size
sizeAfterRemoveKept(size) == size

\* this.sizes[level]--
sizeAfterRemove(size) == size - 1

\* what remove stores into the backward lane when it unlinks index after last
removeBackLink(prev, next, index, last) == Store(prev, next[index], last)

\* mutant: the head is left in place when it is the index removed
removeKeepsHead(next, index) == index

\* this.heads[level] = next[index]
removeNewHead(next, index) == next[index]

\* mutant: the tail falls back to the head also when a predecessor is known
removeNewTailIsHead(last, head) == head

\* this.tails[level] = last ?? head
removeNewTail(last, head) == IF last # Null THEN last ELSE head

\* mutant: remove compares the index asked for with every index it passes
removeComparesEach(steps) == steps

\* the comparator calls of one scan of remove: none, if (curr === index) compares
\* the indices themselves
removeCompares(steps) == 0

\* mutant: the level emptied stays the current one
levelAfterRemoveKept(level, size) == level

\* if (size === 1) this.currentLevel--
levelAfterRemove(level, size) == IF size = 1 THEN level - 1 ELSE level

\* one round of the level loop of remove
removeLevelStep(st, level, index) ==
  LET size == st.sizes[level]
      head == st.heads[level]
      tail == st.tails[level]
      next == st.nexts[level]
      start == IF st.point # Null THEN st.point ELSE head
      r == removeScan(next, index, tail, start, Null, 0, size)
      s0 == [st EXCEPT !.levels = @ \cup {level}, !.keys = @ \cup r.seen,
                       !.bounded = @ /\ r.steps <= size,
                       !.compares = @ + removeCompares(r.steps)]
  IN IF ~r.hit THEN s0
     ELSE [s0 EXCEPT
             !.point = r.last,
             !.sizes[level] = sizeAfterRemove(size),
             !.heads[level] = IF index = head THEN removeNewHead(next, index) ELSE @,
             !.prevs = IF r.last # Null /\ linksBack(level)
                         THEN removeBackLink(@, next, index, r.last) ELSE @,
             !.nexts[level] = IF r.last # Null THEN Store(next, r.last, next[index]) ELSE @,
             !.tails[level] = IF index = tail THEN removeNewTail(r.last, head) ELSE @,
             !.currentLevel = levelAfterRemove(@, size),
             !.keys = @ \cup (IF index = head \/ r.last # Null THEN {index} ELSE {})
                        \cup (IF r.last # Null THEN {r.last} ELSE {})
                        \cup (IF r.last # Null /\ level = 0 THEN {next[index]} ELSE {})]

\* for (let level = this.currentLevel; level >= 0; level--)
RECURSIVE removeLoop(_, _, _)
removeLoop(st, level, index) ==
  IF level < 0 THEN st
  ELSE removeLoop(removeLevelStep(st, level, index), level - 1, index)

remove(self, index) ==
  LET st0 == [currentLevel |-> self.currentLevel, heads |-> self.heads,
              tails |-> self.tails, sizes |-> self.sizes, nexts |-> self.nexts,
              prevs |-> self.prevs, point |-> Null, levels |-> {}, keys |-> {}, bounded |-> TRUE,
              compares |-> 0]
  IN removeLoop(st0, self.currentLevel, index)

\* ------------------------------------------------------------------ iteration

\* mutant: the iteration goes on until it has yielded finish, whatever the limit
iterateGoesToFinish(i, limit, last, finish) == last # finish

\* i < limit && last !== finish
iterateGoes(i, limit, last, finish) == i < limit /\ last # finish

\* function* iterate(pointers, start, finish, limit)
RECURSIVE iterate(_, _, _, _, _, _)
iterate(pointers, curr, finish, limit, i, last) ==
  IF iterateGoes(i, limit, last, finish)
    THEN <<curr>> \o iterate(pointers, pointers[curr], finish, limit, i + 1, curr)
    ELSE <<>>

\* forwards(start, limit); Null stands for an omitted argument
forwards(self, start, limit) ==
  iterate(self.nexts[0], IF start # Null THEN start ELSE self.heads[0], self.tails[0],
          IF limit # Null THEN limit ELSE self.sizes[0], 0, Null)

\* backwards(start, limit)
backwards(self, start, limit) ==
  iterate(self.prevs, IF start # Null THEN start ELSE self.tails[0], self.heads[0],
          IF limit # Null THEN limit ELSE self.sizes[0], 0, Null)

\* *[Symbol.iterator]() of the class with the backward lane
iterator(self) == iterate(self.nexts[0], self.heads[0], self.tails[0], self.sizes[0], 0, Null)

\* *[Symbol.iterator]() of the class without it: for (i = 0, p = head; i < size; i++, p = next[p])
RECURSIVE plainIterate(_, _, _, _)
plainIterate(next, p, i, size) ==
  IF i < size THEN <<p>> \o plainIterate(next, next[p], i + 1, size) ELSE <<>>

plainIterator(self) == plainIterate(self.nexts[0], self.heads[0], 0, self.sizes[0])

\* --------------------------------------------------------------------- bisect

\* the scan of bisect at one level: for (let i = 0; i < size; i++) ...
\* pred is the predicate as a table index -> BOOLEAN
\* seen: the cells of next the scan has read
RECURSIVE bisectScan(_, _, _, _, _, _, _)
bisectScan(pred, next, tail, curr, last, i, size) ==
  IF scanEnds(i, size)
    THEN [hit |-> FALSE, curr |-> curr, last |-> last, seen |-> {}, steps |-> i]
  ELSE IF pred[curr]
    THEN [hit |-> TRUE, curr |-> curr, last |-> last, seen |-> {}, steps |-> i + 1]
  ELSE IF curr = tail
    THEN [hit |-> FALSE, curr |-> curr, last |-> curr, seen |-> {}, steps |-> i + 1]
  ELSE LET r == bisectScan(pred, next, tail, next[curr], curr, i + 1, size)
       IN [r EXCEPT !.seen = @ \cup {curr}]

\* mutant: the hint is the index where the predicate first holds
bisectPointAtHit(r, point) == IF r.hit THEN r.curr ELSE point

\* if (predicate(curr)) { point = last; break; }
bisectPoint(r, point) == IF r.hit THEN r.last ELSE point

\* mutant: the early return of the head is taken at every level
bisectReturnsHeadAnyLevel(curr, head, level) == curr = head

\* if (curr === head && level === 0) return head
bisectReturnsHead(curr, head, level) == curr = head /\ level = 0

\* for (let level = this.currentLevel; level >= 0; level--) ... return point
\* result: what bisect returns; levels, keys: the positions the call has used;
\* bounded: no scan took more rounds than the size of its level
RECURSIVE bisectLoop(_, _, _, _, _)
bisectLoop(self, pred, level, point, used) ==
  IF level < 0 THEN [used EXCEPT !.result = point]
  ELSE LET size == self.sizes[level]
           head == self.heads[level]
           tail == self.tails[level]
           next == self.nexts[level]
           start == IF point # Null THEN point ELSE head
           r == bisectScan(pred, next, tail, start, Null, 0, size)
           point1 == bisectPoint(r, point)
           used1 == [used EXCEPT !.levels = @ \cup {level}, !.keys = @ \cup r.seen,
                                 !.bounded = @ /\ r.steps <= size]
       IN IF bisectReturnsHead(r.curr, head, level)
            THEN [used1 EXCEPT !.result = head]
            ELSE bisectLoop(self, pred, level - 1, point1, used1)

\* bisect(predicate): an index, or Null
bisect(self, pred) ==
  bisectLoop(self, pred, self.currentLevel, Null, NothingUsed).result

\* --------------------------------------------------------------------- search

\* mutant: the index the scan stops at is taken as found even when it is greater
searchFoundOnStop(found, curr, cmp) == IF cmp >= 0 THEN curr ELSE found

\* if (cmp === 0) found = curr
searchFound(found, curr, cmp) == IF cmp = 0 THEN curr ELSE found

\* mutant: the scan runs on over equal indices and stops at the first greater one
searchStopsPastEqual(cmp) == cmp > 0

\* if (cmp >= 0) break
searchStops(cmp) == cmp >= 0

\* the scan of search at one level: for (let i = 0, cmp; i < size && last !== tail; i++)
\* match is the three-way matcher as a table index -> {-1, 0, 1}
\* seen: the cells of next the scan has read
RECURSIVE searchScan(_, _, _, _, _, _, _, _)
searchScan(match, next, tail, curr, last, found, i, size) ==
  IF scanEnds(i, size) \/ last = tail
    THEN [last |-> last, found |-> found, seen |-> {}, steps |-> i]
  ELSE LET cmp == match[curr]
           found1 == searchFound(found, curr, cmp)
       IN IF searchStops(cmp)
            THEN [last |-> last, found |-> found1, seen |-> {}, steps |-> i + 1]
          ELSE LET r == searchScan(match, next, tail, next[curr], curr, found1, i + 1, size)
               IN [r EXCEPT !.seen = @ \cup {curr}]

\* for (let level = this.currentLevel, ..., last; level >= 0; level--) ... return found
\* result: what search returns; levels, keys: the positions the call has used
RECURSIVE searchLoop(_, _, _, _, _, _)
searchLoop(self, match, level, last, found, used) ==
  IF level < 0 THEN [used EXCEPT !.result = found]
  ELSE LET start == IF last # Null THEN last ELSE self.heads[level]
           r == searchScan(match, self.nexts[level], self.tails[level], start, last, found,
                           0, self.sizes[level])
       IN searchLoop(self, match, level - 1, r.last, r.found,
                     [used EXCEPT !.levels = @ \cup {level}, !.keys = @ \cup r.seen,
                                  !.bounded = @ /\ r.steps <= self.sizes[level]])

\* search(match): an index, or Null
search(self, match) ==
  searchLoop(self, match, self.currentLevel, Null, Null, NothingUsed).result

\* ------------------------------------------------------------ CircularBuffer

\* at(index): this.values[index], undefined (Null) past the end of the array
at(vals, index) == IF index < Len(vals) THEN vals[index + 1] ELSE Null

\* mutant: a full buffer always overwrites slot 0
overwrittenSlotZero(c) == 0

\* let index = this.cursor++
overwrittenSlot(c) == c

\* append(value) on a buffer buf of capacity cap: the new fields and the index
\* returned
append(buf, cap, value) ==
  IF buf.limit < cap
    THEN [values |-> Append(buf.values, value), limit |-> buf.limit + 1,
          cursor |-> buf.cursor, index |-> buf.limit]
    ELSE LET index == overwrittenSlot(buf.cursor)
         IN [values |-> [buf.values EXCEPT ![index + 1] = value], limit |-> buf.limit,
             cursor |-> (buf.cursor + 1) % cap, index |-> index]

\* Array.from(buffer): capacity reads, the first at the cursor; a slot that was never
\* pushed reads as undefined (Null)
bufferIterator(buf, cap) ==
  [offset \in 1 .. cap |-> at(buf.values, ((offset - 1) + buf.cursor) % cap)]

\* ---------------------------------------------------------- reference list

\* the reference sorted list: i goes right after the last x with compare(i, x) >= 0
RefInsert(d, s, i) ==
  LET ge == {k \in 1 .. Len(s) : compare(d, i, s[k]) >= 0}
      pos == IF ge = {} THEN 0 ELSE CHOOSE k \in ge : \A m \in ge : m <= k
  IN SubSeq(s, 1, pos) \o <<i>> \o SubSeq(s, pos + 1, Len(s))

RefRemove(s, i) == SelectSeq(s, LAMBDA x : x # i)

\* --------------------------------------------------------------------- actions

\* no iteration in progress
NoIteration ==
  [state |-> "idle", lane |-> "next", start |-> Null, lim |-> Null, curr |-> 0, last |-> Null,
   finish |-> 0, limit |-> 0, i |-> 0, yielded |-> 0, ok |-> TRUE]

\* no randomLevel call under study
NoDraw == [count |-> 0, num |-> 1, den |-> 2, xs |-> 0, state |-> "none", level |-> 0]


\* the state after new FixedSkipList(Capacity, 1 / RatioInv, compare), with an empty
\* container and an empty CircularBuffer(Capacity) beside it
Fresh ==
  /\ currentLevel = 0
  /\ heads = [l \in Levels |-> 0]
  /\ tails = [l \in Levels |-> 0]
  /\ sizes = [l \in Levels |-> 0]
  /\ nexts = [l \in Levels |-> ZeroLane]
  /\ prevs = ZeroLane
  /\ data = [i \in Indices |-> 0]
  /\ live = {}
  /\ ref = <<>>
  /\ drawn = [i \in Indices |-> 0]
  /\ op = [name |-> "new", index |-> Null, value |-> 0, level |-> 0, order |-> <<>>, size |-> 0,
           undo |-> FALSE, old |-> Null]
  /\ nops = 0
  /\ inside = TRUE
  /\ buffer = [values |-> <<>>, limit |-> 0, cursor |-> 0]
  /\ pending = Null
  /\ appends = 0
  /\ bounded = TRUE
  /\ compares = 0
  /\ recent = <<>>
  /\ iter = NoIteration
  /\ twin = [currentLevel |-> 0, heads |-> [l \in Levels |-> 0], tails |-> [l \in Levels |-> 0],
             sizes |-> [l \in Levels |-> 0], nexts |-> [l \in Levels |-> ZeroLane],
             prevs |-> ZeroLane, drawn |-> [i \in Indices |-> 0]]

Init ==
  /\ Fresh
  /\ ctor = constructor(Capacity, 1, RatioInv)
  /\ draw = NoDraw

Install(st) ==
  /\ currentLevel' = st.currentLevel
  /\ heads' = st.heads
  /\ tails' = st.tails
  /\ sizes' = st.sizes
  /\ nexts' = st.nexts
  /\ prevs' = st.prevs
  /\ inside' = (st.levels \subseteq Levels /\ st.keys \subseteq Indices)
  /\ bounded' = st.bounded
  /\ compares' = st.compares

\* the slot the caller's container hands out next: the lowest free one (a slot
\* freed by remove is handed out again, with a value of its own)
FreeSlots(used) ==
  {i \in Indices \ used : \A j \in Indices \ used : i <= j}

\* the caller stores a value in slot index of its container and inserts the index
Insert ==
  \E index \in FreeSlots(live), value \in Values, lvl \in {randomLevel(xs) : xs \in Draws} :
    LET d == [data EXCEPT ![index] = value]
    IN /\ nops < MaxOps
       /\ nops' = nops + 1
       /\ data' = d
       /\ Install(insert(d, Self, index, lvl))
       /\ live' = live \cup {index}
       /\ ref' = RefInsert(d, ref, index)
       /\ drawn' = [drawn EXCEPT ![index] = lvl]
       /\ op' = [name |-> "insert", index |-> index, value |-> value, level |-> lvl,
                 order |-> forwards(Self, Null, Null), size |-> sizes[0],
                 undo |-> FALSE, old |-> Null]
       /\ UNCHANGED <<buffer, pending, appends, ctor, recent, iter, draw, twin>>

\* the caller removes a live index and clears its slot (remove itself never reads
\* the container)
Remove ==
  \E index \in live :
    /\ nops < MaxOps
    /\ nops' = nops + 1
    /\ Install(remove(Self, index))
    /\ live' = live \ {index}
    /\ ref' = RefRemove(ref, index)
    /\ drawn' = [drawn EXCEPT ![index] = 0]
    /\ op' = LET undo == op.name = "insert" /\ op.index = index
             IN [name |-> "remove", index |-> index, value |-> data[index],
                 level |-> drawn[index],
                 order |-> IF undo THEN op.order ELSE <<>>,
                 size |-> IF undo THEN op.size ELSE 0,
                 undo |-> undo, old |-> Null]
    /\ data' = [data EXCEPT ![index] = 0]
    /\ UNCHANGED <<buffer, pending, appends, ctor, recent, iter, draw, twin>>

\* the caller calls remove with an index that is not in the list (never inserted,
\* or removed before)
RemoveAbsent ==
  \E index \in Indices \ live :
    /\ nops < MaxOps
    /\ nops' = nops + 1
    /\ Install(remove(Self, index))
    /\ op' = [name |-> "removeAbsent", index |-> index, value |-> 0, level |-> 0,
              order |-> <<>>, size |-> 0, undo |-> FALSE, old |-> Null]
    /\ UNCHANGED <<data, live, ref, drawn, buffer, pending, appends, ctor, recent, iter, draw, twin>>

Next == Insert \/ Remove \/ RemoveAbsent

Spec == Init /\ [][Next]_vars

\* ------------------------------------------------------- sliding window

\* the caller appends a value to the circular buffer and holds the index returned
AppendValue ==
  \E value \in Values :
    LET r == append(buffer, Capacity, value)
    IN /\ pending = Null
       /\ appends < MaxAppends
       /\ appends' = appends + 1
       /\ buffer' = [values |-> r.values, limit |-> r.limit, cursor |-> r.cursor]
       /\ pending' = r.index
       /\ recent' = (IF Len(recent) < Capacity THEN recent ELSE Tail(recent)) \o <<value>>
       /\ data' = [data EXCEPT ![r.index] = at(r.values, r.index)]
       /\ op' = [name |-> "append", index |-> r.index, value |-> value, level |-> 0,
                 order |-> <<>>, size |-> 0, undo |-> FALSE,
                 old |-> at(buffer.values, r.index)]
       /\ UNCHANGED <<currentLevel, heads, tails, sizes, nexts, prevs, live, ref, drawn,
                      nops, inside, ctor, bounded, iter, draw, twin, compares>>

\* the index returned is still in the list: evict first (its slot already holds the
\* new value)
Evict ==
  /\ pending # Null
  /\ pending \in live
  /\ Install(remove(Self, pending))
  /\ live' = live \ {pending}
  /\ ref' = RefRemove(ref, pending)
  /\ drawn' = [drawn EXCEPT ![pending] = 0]
  /\ nops' = nops + 1
  /\ op' = [name |-> "remove", index |-> pending, value |-> data[pending],
            level |-> drawn[pending], order |-> <<>>, size |-> 0, undo |-> FALSE,
            old |-> op.old]
  /\ UNCHANGED <<data, buffer, pending, appends, ctor, recent, iter, draw, twin>>

\* the index returned is not in the list: insert it
Reinsert ==
  \E lvl \in {randomLevel(xs) : xs \in Draws} :
    /\ pending # Null
    /\ pending \notin live
    /\ Install(insert(data, Self, pending, lvl))
    /\ live' = live \cup {pending}
    /\ ref' = RefInsert(data, ref, pending)
    /\ drawn' = [drawn EXCEPT ![pending] = lvl]
    /\ nops' = nops + 1
    /\ pending' = Null
    /\ op' = [name |-> "insert", index |-> pending, value |-> data[pending], level |-> lvl,
              order |-> forwards(Self, Null, Null), size |-> sizes[0], undo |-> FALSE,
              old |-> op.old]
    /\ UNCHANGED <<data, buffer, appends, ctor, recent, iter, draw, twin>>

NextWindow == AppendValue \/ Evict \/ Reinsert

SpecWindow == Init /\ [][NextWindow]_vars

\* ------------------------------------------------------------------ misuse

\* insert of any index in range, in the list already or not, with any value
InsertAny ==
  \E index \in Indices, value \in Values, lvl \in {randomLevel(xs) : xs \in Draws} :
    LET d == [data EXCEPT ![index] = value]
    IN /\ nops < MaxMisuse
       /\ nops' = nops + 1
       /\ data' = d
       /\ Install(insert(d, Self, index, lvl))
       /\ live' = live \cup {index}
       /\ op' = [name |-> "insert", index |-> index, value |-> value, level |-> lvl,
                 order |-> <<>>, size |-> 0, undo |-> FALSE, old |-> Null]
       /\ UNCHANGED <<ref, drawn, buffer, pending, appends, ctor, recent, iter, draw, twin>>

\* remove of any index in range, in the list or not
RemoveAny ==
  \E index \in Indices :
    /\ nops < MaxMisuse
    /\ nops' = nops + 1
    /\ Install(remove(Self, index))
    /\ live' = live \ {index}
    /\ op' = [name |-> "remove", index |-> index, value |-> 0, level |-> 0,
              order |-> <<>>, size |-> 0, undo |-> FALSE, old |-> Null]
    /\ UNCHANGED <<data, ref, drawn, buffer, pending, appends, ctor, recent, iter, draw, twin>>

NextMisuse == InsertAny \/ RemoveAny

SpecMisuse == Init /\ [][NextMisuse]_vars

\* ----------------------------------------------------------------- queries

\* mutant: a query leaves the list one level lower
queriedLowered(self, used) ==
  [currentLevel |-> self.currentLevel - 1, heads |-> self.heads, tails |-> self.tails,
   sizes |-> self.sizes, nexts |-> self.nexts, prevs |-> self.prevs,
   levels |-> used.levels, keys |-> used.keys, bounded |-> used.bounded,
   compares |-> used.compares]

\* the list after bisect, search, forwards, backwards or the iterator: they assign
\* to their locals only, so every field is as it was
queried(self, used) ==
  [currentLevel |-> self.currentLevel, heads |-> self.heads, tails |-> self.tails,
   sizes |-> self.sizes, nexts |-> self.nexts, prevs |-> self.prevs,
   levels |-> used.levels, keys |-> used.keys, bounded |-> used.bounded,
   compares |-> used.compares]

\* what an iteration that yielded s under limit lim has used: level 0, the cells of
\* the indices it yielded
iterationUse(s, lim) ==
  [result |-> Null, levels |-> {0}, keys |-> {s[k] : k \in 1 .. Len(s)},
   bounded |-> Len(s) <= lim, compares |-> 0]

QueryNames == {"bisect", "search", "forwards", "backwards", "iterator"}

\* the record of a query: its name, what it returned or yielded
Asked(name, result, order) ==
  [name |-> name, index |-> Null, value |-> 0, level |-> 0, order |-> order, size |-> 0,
   undo |-> FALSE, old |-> result]

\* list.bisect(predicate), any predicate
Bisect ==
  \E pred \in [Indices -> BOOLEAN] :
    LET r == bisectLoop(Self, pred, currentLevel, Null, NothingUsed)
    IN /\ nops < MaxOps
       /\ nops' = nops + 1
       /\ Install(queried(Self, r))
       /\ op' = Asked("bisect", r.result, <<>>)
       /\ UNCHANGED <<data, live, ref, drawn, buffer, pending, appends, ctor, recent, iter,
                      draw, twin>>

\* list.search(match), any matcher
Search ==
  \E match \in [Indices -> {-1, 0, 1}] :
    LET r == searchLoop(Self, match, currentLevel, Null, Null, NothingUsed)
    IN /\ nops < MaxOps
       /\ nops' = nops + 1
       /\ Install(queried(Self, r))
       /\ op' = Asked("search", r.result, <<>>)
       /\ UNCHANGED <<data, live, ref, drawn, buffer, pending, appends, ctor, recent, iter,
                      draw, twin>>

\* Array.from(list.forwards(start, limit))
Forwards ==
  \E start \in Indices \cup {Null}, lim \in {Null} \cup (0 .. Capacity) :
    LET s == forwards(Self, start, lim)
    IN /\ nops < MaxOps
       /\ nops' = nops + 1
       /\ Install(queried(Self, iterationUse(s, IF lim # Null THEN lim ELSE sizes[0])))
       /\ op' = Asked("forwards", Null, s)
       /\ UNCHANGED <<data, live, ref, drawn, buffer, pending, appends, ctor, recent, iter,
                      draw, twin>>

\* Array.from(list.backwards(start, limit))
Backwards ==
  \E start \in Indices \cup {Null}, lim \in {Null} \cup (0 .. Capacity) :
    LET s == backwards(Self, start, lim)
    IN /\ nops < MaxOps
       /\ nops' = nops + 1
       /\ Install(queried(Self, iterationUse(s, IF lim # Null THEN lim ELSE sizes[0])))
       /\ op' = Asked("backwards", Null, s)
       /\ UNCHANGED <<data, live, ref, drawn, buffer, pending, appends, ctor, recent, iter,
                      draw, twin>>

\* Array.from(list)
Iterator ==
  LET s == iterator(Self)
  IN /\ nops < MaxOps
     /\ nops' = nops + 1
     /\ Install(queried(Self, iterationUse(s, sizes[0])))
     /\ op' = Asked("iterator", Null, s)
     /\ UNCHANGED <<data, live, ref, drawn, buffer, pending, appends, ctor, recent, iter,
                    draw, twin>>

NextQuery == Insert \/ Remove \/ Bisect \/ Search \/ Forwards \/ Backwards \/ Iterator

SpecQuery == Init /\ [][NextQuery]_vars

\* --------------------------------------------------------- lazy iteration

\* list.forwards(start, limit), list.backwards(start, limit) or list[Symbol.iterator]()
\* makes a generator; nothing of its body runs before the first next()
IterCreate ==
  \E lane \in {"next", "prev"}, start \in Indices \cup {Null}, lim \in {Null} \cup (0 .. Capacity) :
    /\ iter.state \in {"idle", "done"}
    /\ iter' = [NoIteration EXCEPT !.state = "created", !.lane = lane, !.start = start,
                                   !.lim = lim]
    /\ UNCHANGED <<currentLevel, heads, tails, sizes, nexts, prevs, data, live, ref, drawn,
                   op, nops, inside, buffer, pending, appends, ctor, bounded, recent, draw,
                   twin, compares>>

\* one next() of the generator. The first one evaluates the arguments of iterate
\* (this.next or this.prev, start ?? this.head, this.tail, limit ?? this.size) and
\* enters the loop; a later one resumes after the yield: i++, curr = pointers[curr],
\* read from the lane as it is now. ok: every index yielded and every cell read is
\* in [0, capacity)
IterNext ==
  LET first == iter.state = "created"
      forward == iter.lane = "next"
      pointers == IF forward THEN nexts[0] ELSE prevs
      i == IF first THEN 0 ELSE iter.i + 1
      curr == IF first
                THEN IF iter.start # Null THEN iter.start
                     ELSE IF forward THEN heads[0] ELSE tails[0]
                ELSE IF iter.curr \in Indices THEN pointers[iter.curr] ELSE Null
      finish == IF first THEN (IF forward THEN tails[0] ELSE heads[0]) ELSE iter.finish
      limit == IF first THEN (IF iter.lim # Null THEN iter.lim ELSE sizes[0]) ELSE iter.limit
      read == first \/ iter.curr \in Indices
  IN /\ iter.state \in {"created", "running"}
     /\ iter' = IF iterateGoes(i, limit, iter.last, finish)
                  THEN [iter EXCEPT !.state = "running", !.i = i, !.curr = curr,
                                    !.last = curr, !.finish = finish, !.limit = limit,
                                    !.yielded = @ + 1,
                                    !.ok = @ /\ read /\ curr \in Indices]
                  ELSE [iter EXCEPT !.state = "done", !.i = i, !.curr = curr,
                                    !.finish = finish, !.limit = limit,
                                    !.ok = @ /\ read]
     /\ UNCHANGED <<currentLevel, heads, tails, sizes, nexts, prevs, data, live, ref, drawn,
                    op, nops, inside, buffer, pending, appends, ctor, bounded, recent, draw,
                    twin, compares>>

\* insert and remove calls made between two next() calls, or before the first
InsertBetween == nops < MaxIterOps /\ Insert

RemoveBetween == nops < MaxIterOps /\ Remove

NextIter == InsertBetween \/ RemoveBetween \/ IterCreate \/ IterNext

SpecIter == Init /\ [][NextIter]_vars

\* the consumer of a generator goes on calling next() until it is done
SpecIterFair == SpecIter /\ WF_vars(IterNext)

\* ---------------------------------------------------------------- two lists

\* the second list after a call that left it as st, with level lvl drawn for index
TwinAfter(st, index, lvl) ==
  [currentLevel |-> st.currentLevel, heads |-> st.heads, tails |-> st.tails,
   sizes |-> st.sizes, nexts |-> st.nexts, prevs |-> st.prevs,
   drawn |-> [twin.drawn EXCEPT ![index] = lvl]]

\* the caller stores a value and inserts its index into both lists; each list draws
\* a level of its own
InsertBoth ==
  \E index \in FreeSlots(live), value \in Values,
     lvl \in {randomLevel(xs) : xs \in Draws}, other \in {randomLevel(xs) : xs \in Draws} :
    LET d == [data EXCEPT ![index] = value]
    IN /\ nops < MaxOps
       /\ nops' = nops + 1
       /\ data' = d
       /\ Install(insert(d, Self, index, lvl))
       /\ twin' = TwinAfter(insert(d, twin, index, other), index, other)
       /\ live' = live \cup {index}
       /\ ref' = RefInsert(d, ref, index)
       /\ drawn' = [drawn EXCEPT ![index] = lvl]
       /\ op' = [name |-> "insert", index |-> index, value |-> value, level |-> lvl,
                 order |-> forwards(Self, Null, Null), size |-> sizes[0],
                 undo |-> FALSE, old |-> Null]
       /\ UNCHANGED <<buffer, pending, appends, ctor, recent, iter, draw>>

\* the caller removes a live index from both lists
RemoveBoth ==
  \E index \in live :
    /\ nops < MaxOps
    /\ nops' = nops + 1
    /\ Install(remove(Self, index))
    /\ twin' = TwinAfter(remove(twin, index), index, 0)
    /\ live' = live \ {index}
    /\ ref' = RefRemove(ref, index)
    /\ drawn' = [drawn EXCEPT ![index] = 0]
    /\ op' = [name |-> "remove", index |-> index, value |-> data[index],
              level |-> drawn[index], order |-> <<>>, size |-> 0, undo |-> FALSE,
              old |-> Null]
    /\ data' = [data EXCEPT ![index] = 0]
    /\ UNCHANGED <<buffer, pending, appends, ctor, recent, iter, draw>>

NextTwin == InsertBoth \/ RemoveBoth

SpecTwin == Init /\ [][NextTwin]_vars

\* ------------------------------------------------------------- construction

\* the arguments the constructor is tried with
CtorArgs ==
  {[capacity |-> c, num |-> n, den |-> d, state |-> "new", maxLevel |-> 0] :
     c \in 0 .. MaxCapacityArg, n \in (-1) .. MaxRatioNum, d \in 1 .. MaxRatioDen}

InitNew ==
  /\ Fresh
  /\ ctor \in CtorArgs
  /\ draw = NoDraw

Construct ==
  /\ ctor.state = "new"
  /\ ctor' = constructor(ctor.capacity, ctor.num, ctor.den)
  /\ UNCHANGED <<currentLevel, heads, tails, sizes, nexts, prevs, data, live, ref, drawn,
                 op, nops, inside, buffer, pending, appends, bounded, recent, iter, draw, twin, compares>>

NextNew == Construct

SpecNew == InitNew /\ [][NextNew]_vars

\* ------------------------------------------------------------- level draws

\* the randomLevel calls tried: a table of count entries, a ratio num / den in
\* (0, 1), a draw xs / drawScale(count, den) in [0, 1)
DrawArgs ==
  {[count |-> c, num |-> n, den |-> d, xs |-> x, state |-> "new", level |-> 0] :
     c \in 0 .. MaxLevelCount, n \in 1 .. (MaxLevelDen - 1), d \in 2 .. MaxLevelDen,
     x \in 0 .. (drawScale(MaxLevelCount, MaxLevelDen) - 1)}

InitLevel ==
  /\ Fresh
  /\ ctor = constructor(Capacity, 1, RatioInv)
  /\ draw \in {a \in DrawArgs : a.num < a.den /\ a.xs < drawScale(a.count, a.den)}

\* one call of randomLevel()
RandomLevel ==
  /\ draw.state = "new"
  /\ draw' = [draw EXCEPT !.state = "done",
                          !.level = randomLevelGenerator(draw.count, draw.num, draw.den, draw.xs)]
  /\ UNCHANGED <<currentLevel, heads, tails, sizes, nexts, prevs, data, live, ref, drawn,
                 op, nops, inside, buffer, pending, appends, ctor, bounded, recent, iter, twin, compares>>

NextLevel == RandomLevel

SpecLevel == InitLevel /\ [][NextLevel]_vars

\* ------------------------------------------------------- what a caller observes

\* Array.from(list.forwards()), Array.from(list.backwards()), Array.from(list)
Fwd == forwards(Self, Null, Null)

Bwd == backwards(Self, Null, Null)

\* the chain of one level: from heads[l] along nexts[l], sizes[l] steps at most
levelChain(self, l) ==
  iterate(self.nexts[l], self.heads[l], self.tails[l], self.sizes[l], 0, Null)

\* the walk of one level by count alone: sizes[l] indices from heads[l] along nexts[l]
walk(self, l) == plainIterate(self.nexts[l], self.heads[l], 0, self.sizes[l])

Range(s) == {s[k] : k \in 1 .. Len(s)}

NoRepeat(s) == \A j, k \in 1 .. Len(s) : j # k => s[j] # s[k]

Reverse(s) == [k \in 1 .. Len(s) |-> s[Len(s) + 1 - k]]

Without(s, i) == SelectSeq(s, LAMBDA x : x # i)

\* the position of a live index in a sequence without repeats (0: absent)
PosIn(s, i) == IF i \in Range(s) THEN CHOOSE k \in 1 .. Len(s) : s[k] = i ELSE 0

\* index -> its position in s (0: absent)
PosOf(s) == [i \in Indices |-> PosIn(s, i)]

\* every monotone predicate on a sequence with positions pos: false before position
\* k, true from it (k past the last position: false everywhere)
StepPred(pos, k) == [i \in Indices |-> pos[i] >= k]

\* the probes of a matcher: every value, and one above them all
Probes == 0 .. (MaxVal + 1)

\* the three-way matcher of a probe value: -1 for an index whose value is below the
\* probe, 0 for an equal one, +1 for one above
ValueMatch(p) == [i \in Indices |-> ascending(data[i], p)]

\* ---------------------------------------------------------------------- C1

\* C1: after every valid sequence of insert and remove calls the full iteration
\* (the default iterator of either class, and forwards()) yields the indices in
\* non-decreasing comparator order, whatever levels were drawn.
C1_Order ==
  \A s \in {Fwd, iterator(Self), plainIterator(Self)} :
    \A k \in 1 .. (Len(s) - 1) : compare(data, s[k], s[k + 1]) <= 0

\* a full list holding a tie and a strict step, with a promoted index, reached by
\* an insert that follows a remove
C1_Witness ==
  /\ op.name = "insert"
  /\ nops > Capacity
  /\ Len(Fwd) = Capacity
  /\ \E k \in 1 .. (Len(Fwd) - 1) : data[Fwd[k]] < data[Fwd[k + 1]]
  /\ \E k \in 1 .. (Len(Fwd) - 1) : data[Fwd[k]] = data[Fwd[k + 1]]
  /\ \E i \in live : drawn[i] >= 1

\* ---------------------------------------------------------------------- C2

\* C2: the full forward iteration yields exactly the live indices, each once, and
\* its length is the size accessor sizes[0].
C2_SizeAgreement ==
  \A s \in {Fwd, iterator(Self), plainIterator(Self)} :
    /\ Len(s) = sizes[0]
    /\ Range(s) = live
    /\ NoRepeat(s)

\* two indices are left after a remove that followed at least three inserts
C2_Witness ==
  /\ op.name = "remove"
  /\ nops >= Capacity + 1
  /\ sizes[0] = 2
  /\ Len(Fwd) = 2

\* ---------------------------------------------------------------------- C3

\* what bisect and search can return in the current state, over every monotone
\* predicate and matcher on the forward sequence
QueryResults ==
  LET F == Fwd
      pos == PosOf(F)
  IN {bisect(Self, StepPred(pos, k)) : k \in 1 .. (Len(F) + 1)}
       \cup {search(Self, ValueMatch(p)) : p \in Probes}

\* C3: after remove(i) of a live index i, i is linked at no level, no forward or
\* backward iteration yields it, no bisect or search returns it, the size has gone
\* down by exactly one and the remaining indices are yielded in the same relative
\* order as before.
C3_RemoveUnlinks ==
  [][(op'.name = "remove" /\ nops' = nops + 1) =>
        LET i == op'.index
        IN /\ \A l \in Levels : i \notin Range(levelChain(Self', l))
           /\ Fwd' = Without(Fwd, i)
           /\ Bwd' = Without(Bwd, i)
           /\ i \notin QueryResults'
           /\ sizes'[0] = sizes[0] - 1]_vars

\* ---------------------------------------------------------------------- C4

\* C4: backwards() yields exactly what forwards() yields, reversed.
C4_RoundTrip == Bwd = Reverse(Fwd)

\* ---------------------------------------------------------------------- C5

\* C5: for every consecutive pair (a, b) of the forward iteration, prevs[0][b] = a.
C5_LinkSymmetry ==
  \A k \in 1 .. (Len(Fwd) - 1) : prevs[Fwd[k + 1]] = Fwd[k]

\* ---------------------------------------------------------------------- C6

\* C6: the level-0 sequence always equals the reference sorted list, in which
\* insert(i) places i right after the last x with compare(i, x) >= 0 and remove(i)
\* deletes i, for every choice of drawn levels.
C6_Refinement == Fwd = ref /\ levelChain(Self, 0) = ref

\* the index just inserted stands behind an equal one and in front of a greater
\* one, and was spliced at two levels next to other promoted indices
C6_Witness ==
  /\ op.name = "insert"
  /\ op.level >= 1
  /\ sizes[1] >= 2
  /\ LET k == PosIn(ref, op.index)
     IN /\ 1 < k /\ k < Len(ref)
        /\ data[ref[k - 1]] = op.value
        /\ data[ref[k + 1]] > op.value

\* ---------------------------------------------------------------------- C7

C9_BisectCorrect ==
  LET F == Fwd
      pos == PosOf(F)
  IN \A k \in 1 .. Len(F) :
       bisect(Self, StepPred(pos, k)) = (IF k = 1 THEN heads[0] ELSE F[k - 1])

\* a full list with a promoted index: true at the head gives the head, true from
\* the last index on gives the one before it
C9_Witness ==
  /\ Len(Fwd) = Capacity
  /\ currentLevel >= 1
  /\ bisect(Self, StepPred(PosOf(Fwd), 1)) = Fwd[1]
  /\ bisect(Self, StepPred(PosOf(Fwd), Len(Fwd))) = Fwd[Len(Fwd) - 1]

\* ---------------------------------------------------------------------- C10

\* C10: on a list with at least one live index (also exactly one), for a predicate
\* that is false for all live indices, bisect returns null.
C10_BisectFalseEverywhere ==
  live # {} => bisect(Self, StepPred(PosOf(Fwd), Len(Fwd) + 1)) = Null

\* ---------------------------------------------------------------------- C11

C12_DownwardClosure ==
  /\ \A l \in Levels : l + 1 \in Levels =>
       Range(levelChain(Self, l + 1)) \subseteq Range(levelChain(Self, l))
  /\ \A i \in live : \A l \in Levels :
       (i \in Range(levelChain(Self, l))) <=> (l <= drawn[i])

\* after a promoted index was removed, a promoted and an unpromoted index are left
C12_Witness ==
  /\ op.name = "remove"
  /\ op.level >= 1
  /\ \E i, j \in live :
       /\ drawn[i] >= 1 /\ drawn[j] = 0
       /\ i \in Range(levelChain(Self, 1))
       /\ j \notin Range(levelChain(Self, 1))

\* ---------------------------------------------------------------------- C13

\* C13: for every level l <= currentLevel with sizes[l] >= 1, the walk from
\* heads[l] along nexts[l] reaches tails[l] in exactly sizes[l] steps (heads[l]
\* being the first), visits no index twice and is in non-decreasing comparator
\* order.
C13_LevelChains ==
  \A l \in Levels : (l <= currentLevel /\ sizes[l] >= 1) =>
    LET w == walk(Self, l)
    IN /\ w[Len(w)] = tails[l]
       /\ NoRepeat(w)
       /\ \A k \in 1 .. (Len(w) - 1) : compare(data, w[k], w[k + 1]) <= 0

\* a full list whose level 1 holds two indices, after a remove and a new insert
C13_Witness ==
  /\ op.name = "insert"
  /\ nops > Capacity
  /\ currentLevel >= 1
  /\ sizes[0] = Capacity
  /\ sizes[1] >= 2
  /\ walk(Self, 1)[sizes[1]] = tails[1]
  /\ walk(Self, 1)[1] # tails[1]

\* ---------------------------------------------------------------------- C14

Min(a, b) == IF a <= b THEN a ELSE b

\* C14: sliding window. Each new value is appended to the circular buffer; if the
\* index returned is live it is removed (its slot already holds the new value) and
\* then inserted. After every such step the forward iteration is in non-decreasing
\* order of the values now stored, the size is min(number of appends, capacity),
\* and a re-inserted index stands where its new value belongs.
C14_SlidingWindow ==
  pending = Null =>
    /\ \A k \in 1 .. (Len(Fwd) - 1) :
         at(buffer.values, Fwd[k]) <= at(buffer.values, Fwd[k + 1])
    /\ sizes[0] = Min(appends, Capacity)
    /\ Len(Fwd) = Min(appends, Capacity)
    /\ Range(Fwd) = 0 .. (Min(appends, Capacity) - 1)
    /\ NoRepeat(Fwd)
    /\ Fwd = ref

\* the buffer has wrapped; the index re-inserted last held the least value, now
\* holds the greatest and is the last of the iteration, behind a smaller one
C14_Witness ==
  /\ pending = Null
  /\ appends > Capacity
  /\ op.name = "insert"
  /\ op.old = 0
  /\ op.value = MaxVal
  /\ op.level >= 1
  /\ \E i \in live : at(buffer.values, i) < MaxVal
  /\ Fwd[Len(Fwd)] = op.index
  /\ sizes[0] = Capacity

\* ---------------------------------------------------------------------- C15

\* the levels and cells a query uses
bisectUse(self, pred) ==
  bisectLoop(self, pred, self.currentLevel, Null, NothingUsed)

searchUse(self, match) ==
  searchLoop(self, match, self.currentLevel, Null, Null, NothingUsed)

\* the limits an iteration is called with: omitted, or 0 .. Capacity + 1
Limits == {Null} \cup (0 .. (Capacity + 1))

\* C15: for every sequence of insert, remove, bisect, search and iteration calls
\* with index arguments in [0, capacity), misuse included (double insertion,
\* removal of a non-member), every access uses a level in [0, L) and a cell in
\* [0, capacity).
C15_InsideArrays ==
  /\ inside
  /\ \A pred \in [Indices -> BOOLEAN] :
       LET r == bisectUse(Self, pred)
       IN r.levels \subseteq Levels /\ r.keys \subseteq Indices
  /\ \A match \in [Indices -> {-1, 0, 1}] :
       LET r == searchUse(Self, match)
       IN r.levels \subseteq Levels /\ r.keys \subseteq Indices
  /\ \A start \in Indices \cup {Null}, lim \in Limits :
       /\ Range(forwards(Self, start, lim)) \subseteq Indices
       /\ Range(backwards(Self, start, lim)) \subseteq Indices
  /\ Range(iterator(Self)) \subseteq Indices
  /\ Range(plainIterator(Self)) \subseteq Indices

\* an index was inserted at two levels while the list counts more indices than
\* were ever distinct (some index went in twice), at the end of a run
C15_Witness ==
  /\ op.name = "insert"
  /\ op.level >= 1
  /\ nops = MaxMisuse
  /\ sizes[0] > Cardinality(live)
  /\ inside

\* ---------------------------------------------------------------------- C16

\* C16: remove(i) of an index that is not live (never inserted, or removed before)
\* leaves size, heads, tails, sizes, currentLevel and every link of every live
\* index unchanged, so the iteration order is as before.
C16_RemoveAbsentNoOp ==
  [][op'.name = "removeAbsent" =>
       /\ UNCHANGED <<currentLevel, heads, tails, sizes>>
       /\ \A i \in live : /\ prevs'[i] = prevs[i]
                          /\ \A l \in Levels : nexts'[l][i] = nexts[l][i]
       /\ Fwd' = Fwd
       /\ Bwd' = Bwd
       /\ inside']_vars

\* remove was called with an index that was in the list before (its forward cell
\* still names a live index) while two or more indices are live, one promoted
C16_Witness ==
  /\ op.name = "removeAbsent"
  /\ Cardinality(live) >= 2
  /\ currentLevel >= 1
  /\ nexts[0][op.index] \in live \ {0}
  /\ Len(Fwd) = Cardinality(live)

\* ---------------------------------------------------------------------- C17

\* C17: constructing with capacity = 0, ratio <= 0 or ratio >= 1 fails, and
\* construction succeeds only for capacity >= 1 and 0 < ratio < 1.
C17_ConstructorValidates ==
  ctor.state # "new" =>
    ((ctor.state = "made") <=> (ctor.capacity >= 1 /\ 0 < ctor.num /\ ctor.num < ctor.den))

\* ---------------------------------------------------------------------- C18

\* C18: whenever size >= 1, the head accessor heads[0] is the first and the tail
\* accessor tails[0] the last index of the iteration (the reference list); when
\* size is 1, head and tail are both the only live index.
C18_HeadTail ==
  sizes[0] >= 1 =>
    /\ Len(ref) >= 1
    /\ heads[0] = ref[1]
    /\ tails[0] = ref[Len(ref)]
    /\ sizes[0] = 1 => (heads[0] = tails[0] /\ live = {heads[0]})

\* an index was inserted into a list that had held two indices (a forward link is
\* left of them) and was emptied again, and is head and tail
C18_Witness ==
  /\ op.name = "insert"
  /\ op.size = 0
  /\ nops >= 3
  /\ sizes[0] = 1
  /\ heads[0] = op.index
  /\ tails[0] = op.index
  /\ \E i \in Indices : nexts[0][i] # 0

\* ---------------------------------------------------------------------- C19

\* the first n elements of a sequence
Take(s, n) == SubSeq(s, 1, Min(n, Len(s)))

\* C19: for a live index start, forwards(start, limit) yields start and its
\* successors, at most limit indices, ending with the tail at the latest;
\* backwards(start, limit) yields start and its predecessors, at most limit
\* indices, ending with the head at the latest. With the limit omitted
\* forwards(start) is the suffix of the full iteration from start and
\* backwards(start) the reversed prefix up to start; on an empty list both yield
\* nothing.
C19_Directions ==
  /\ \A start \in live :
       LET k == PosIn(ref, start)
           suffix == SubSeq(ref, k, Len(ref))
           prefix == Reverse(SubSeq(ref, 1, k))
       IN /\ forwards(Self, start, Null) = suffix
          /\ backwards(Self, start, Null) = prefix
          /\ \A lim \in 0 .. (Capacity + 1) :
               /\ forwards(Self, start, lim) = Take(suffix, lim)
               /\ backwards(Self, start, lim) = Take(prefix, lim)
  /\ live = {} => (forwards(Self, Null, Null) = <<>> /\ backwards(Self, Null, Null) = <<>>)

\* ---------------------------------------------------------------------- C20

\* C20: append returns 0, 1, ..., capacity-1 for the first capacity appends and
\* then the index of the oldest stored value, cycling; it overwrites exactly that
\* slot and leaves every other slot as it was; at(index) returns the value
\* appended there last.
C20_Append ==
  [][op'.name = "append" =>
       /\ op'.index = appends % Capacity
       /\ pending' = op'.index
       /\ at(buffer'.values, op'.index) = op'.value
       /\ \A i \in Indices \ {op'.index} : at(buffer'.values, i) = at(buffer.values, i)
       /\ Len(buffer'.values) = Min(appends + 1, Capacity)]_vars

\* the buffer has wrapped twice and the last append overwrote the last slot with
\* a different value
C20_Witness ==
  /\ op.name = "append"
  /\ appends = 2 * Capacity
  /\ op.index = Capacity - 1
  /\ op.old # Null
  /\ op.old # op.value
  /\ at(buffer.values, op.index) = op.value

\* C21: iterating the circular buffer yields exactly the values it holds, oldest
\* first: min(appends, capacity) of them, before the buffer has filled as well as
\* after it has wrapped, with no undefined entry.
C21_BufferIteration ==
  bufferIterator(buffer, Capacity) = recent

topLevel(self) ==
  LET used == {l \in Levels : self.sizes[l] >= 1}
  IN IF used = {} THEN Null ELSE CHOOSE l \in used : \A k \in used : k <= l

\* C23: in every reachable valid state whose list is not empty currentLevel is the
\* highest level l with sizes[l] >= 1; insert never lowers currentLevel and remove
\* never raises it.
C23_CurrentLevel ==
  /\ [](live # {} => currentLevel = topLevel(Self))
  /\ [][/\ op'.name = "insert" => currentLevel' >= currentLevel
        /\ op'.name \in {"remove", "removeAbsent"} => currentLevel' <= currentLevel]_vars

\* a remove has emptied the upper level of a list that keeps indices below it
C23_Witness ==
  /\ op.name = "remove"
  /\ op.level >= 1
  /\ currentLevel = 0
  /\ sizes[0] >= 1
  /\ sizes[1] = 0

\* C24: after every sequence of insert and remove calls 0 <= currentLevel < L, also
\* after the last index of the list has been removed.
C24_CurrentLevelRange ==
  0 <= currentLevel /\ currentLevel < maxLevel

\* C25: insert(index) with the drawn level insertLevel sets currentLevel to
\* max(previous currentLevel, insertLevel); for every level l <= insertLevel it
\* increments sizes[l] by exactly 1 and links index into the chain of level l; for
\* every l > insertLevel it leaves heads[l], tails[l], sizes[l] and the chain of
\* level l unchanged.
C25_InsertLevels ==
  [][op'.name = "insert" =>
       LET index == op'.index
           insertLevel == op'.level
       IN /\ currentLevel' = (IF currentLevel >= insertLevel THEN currentLevel ELSE insertLevel)
          /\ \A l \in Levels :
               IF l <= insertLevel
                 THEN /\ sizes'[l] = sizes[l] + 1
                      /\ index \in Range(levelChain(Self, l)')
                      /\ Without(levelChain(Self, l)', index) = levelChain(Self, l)
                 ELSE /\ heads'[l] = heads[l]
                      /\ tails'[l] = tails[l]
                      /\ sizes'[l] = sizes[l]
                      /\ levelChain(Self, l)' = levelChain(Self, l)]_vars

\* an insert at level 0 into a list with indices on the level above it
C25_Witness ==
  /\ op.name = "insert"
  /\ op.level = 0
  /\ currentLevel = 1
  /\ sizes[1] >= 1
  /\ sizes[0] >= 3

\* C26: for every uniform draw x in [0, 1) randomLevel returns the number of table
\* entries ratio^k (k = 1 .. L - 1) with x <= ratio^k, a value in [0, L - 1]; with
\* an empty table (L = 1) it always returns 0.
C26_RandomLevel ==
  draw.state = "done" =>
    /\ draw.level = Cardinality({k \in 1 .. draw.count :
                       draw.xs * Pow(draw.den, k)
                         <= drawScale(draw.count, draw.den) * Pow(draw.num, k)})
    /\ draw.level \in 0 .. draw.count
    /\ draw.count = 0 => draw.level = 0

\* a draw that is exactly the second entry of a table of three
C26_Witness ==
  /\ draw.state = "done"
  /\ draw.count = 3
  /\ draw.xs = tableEntry(3, draw.num, draw.den, 1)
  /\ draw.level = 2

\* C27: every insert, remove, bisect and search call terminates: at each level from
\* currentLevel down to 0 its scan takes at most sizes[l] rounds; every iteration
\* yields at most limit indices; both also when misuse has left the links
\* inconsistent (a cycle, for one).
C27_BoundedScans ==
  /\ bounded
  /\ \A pred \in [Indices -> BOOLEAN] : bisectUse(Self, pred).bounded
  /\ \A match \in [Indices -> {-1, 0, 1}] : searchUse(Self, match).bounded
  /\ \A start \in Indices \cup {Null}, lim \in Limits :
       LET most == IF lim # Null THEN lim ELSE sizes[0]
       IN /\ Len(forwards(Self, start, lim)) <= most
          /\ Len(backwards(Self, start, lim)) <= most
  /\ Len(iterator(Self)) <= sizes[0]

\* a call on a list whose level 0 holds a cycle: an index that is its own successor
C27_Witness ==
  /\ op.name \in {"insert", "remove"}
  /\ sizes[0] >= 2
  /\ \E i \in Indices : nexts[0][i] = i /\ i # tails[0]

\* C28: when insert and remove calls are made between the steps of a lazy
\* iteration, the iteration still terminates after yielding at most the limit it
\* captured at its start, and every index it yields and every cell it reads is in
\* [0, capacity).
C28_LazyIteration ==
  /\ [](iter.yielded <= iter.limit /\ iter.ok)
  /\ (iter.state = "running") ~> (iter.state = "done")

\* an iteration that has yielded an index which a remove made since its start has
\* taken out of the list
C28_Witness ==
  /\ iter.state = "running"
  /\ iter.yielded >= 2
  /\ op.name = "remove"
  /\ iter.last \notin live

\* C29: in every valid reachable state sizes[l + 1] <= sizes[l] for every level l,
\* and sizes[0] <= capacity.
C29_SizesDecrease ==
  /\ \A l \in Levels : (l + 1) \in Levels => sizes[l + 1] <= sizes[l]
  /\ sizes[0] <= Capacity

\* a full list with fewer indices on the upper level than below
C29_Witness ==
  /\ sizes[0] = Capacity
  /\ sizes[1] >= 1
  /\ sizes[1] < sizes[0]
  /\ op.name = "insert"

\* C30: what a caller observes does not depend on the levels drawn: two lists given
\* the same sequence of valid calls, with different draws, have the same size, head
\* and tail, yield the same forward and backward iterations, and return the same
\* bisect(P) for every monotone P and the same search(match) for every monotone
\* match.
C30_LevelsUnobservable ==
  /\ sizes[0] = twin.sizes[0]
  /\ heads[0] = twin.heads[0]
  /\ tails[0] = twin.tails[0]
  /\ iterator(Self) = iterator(twin)
  /\ \A start \in live \cup {Null}, lim \in Limits :
       /\ forwards(Self, start, lim) = forwards(twin, start, lim)
       /\ backwards(Self, start, lim) = backwards(twin, start, lim)
  /\ \A k \in 1 .. (Len(Fwd) + 1) :
       bisect(Self, StepPred(PosOf(Fwd), k)) = bisect(twin, StepPred(PosOf(Fwd), k))
  /\ \A p \in Probes :
       search(Self, ValueMatch(p)) = search(twin, ValueMatch(p))

\* two lists of three indices each whose draws differ for an index still in them
C30_Witness ==
  /\ sizes[0] = Capacity
  /\ currentLevel # twin.currentLevel
  /\ \E i \in live : drawn[i] # twin.drawn[i]
  /\ \E i, j \in live : i # j /\ data[i] = data[j]

C32_BisectEmpty ==
  live = {} => \A pred \in [Indices -> BOOLEAN] : bisect(Self, pred) = Null

\* bisect of the monotone predicate that first holds at position k of the order
bisectAt(k) == bisect(Self, StepPred(PosOf(Fwd), k))

\* C33 as stated: on the same list, two monotone predicates whose first-true
\* positions differ (first true at the head, first true at the second index) get
\* different results from bisect.
C33_BisectDistinguishes ==
  \A j, k \in 1 .. Len(Fwd) : j # k => bisectAt(j) # bisectAt(k)

\* C33, amended: bisect tells two first-true positions apart except the first two:
\* a predicate first true at the head and one first true at the second index both
\* get the head; every other pair of positions gets different results.
C33_BisectPositions ==
  \A j, k \in 1 .. Len(Fwd) :
    j < k => (bisectAt(j) = bisectAt(k) <=> (j = 1 /\ k = 2))

\* a full list with a promoted index where the first two positions give the head
\* and the third does not
C33_Witness ==
  /\ Len(Fwd) = Capacity
  /\ currentLevel >= 1
  /\ bisectAt(1) = heads[0]
  /\ bisectAt(2) = heads[0]
  /\ bisectAt(3) # heads[0]

====
